---------------------------- MODULE Spec2Model ----------------------------
(***************************************************************************)
(* Model of scholar_cite_checker.py: a polling loop that reads the last    *)
(* known citation count from a text file, looks the author up, compares,   *)
(* e-mails on an increase and rewrites the file.                           *)
(*                                                                         *)
(* Text is a sequence of one-character strings, so that str(), strip() and *)
(* int() are modelled by what they do to the characters.                   *)
(***************************************************************************)
EXTENDS Integers, Sequences, FiniteSets, TLC

\* ------------------------------------------------------------------ bounds
\* Largest citation count the external source reports in the model.
MaxCount == 11

\* ------------------------------------------------------------ text helpers
DigitChars == <<"0", "1", "2", "3", "4", "5", "6", "7", "8", "9">>

IsDigit(c) == \E i \in 1..10 : DigitChars[i] = c

DigitVal(c) == (CHOOSE i \in 1..10 : DigitChars[i] = c) - 1

\* str.strip() with no argument removes leading and trailing whitespace.
IsSpace(c) == c \in {" ", "\n", "\t"}

RECURSIVE LStrip(_)
LStrip(s) == IF s # <<>> /\ IsSpace(Head(s)) THEN LStrip(Tail(s)) ELSE s

RECURSIVE RStrip(_)
RStrip(s) ==
    IF s # <<>> /\ IsSpace(s[Len(s)]) THEN RStrip(SubSeq(s, 1, Len(s) - 1)) ELSE s

Strip(s) == RStrip(LStrip(s))

\* str(n) for a Python int: decimal digits, most significant first, with a
\* leading "-" for a negative number.
RECURSIVE StrNat(_)
StrNat(n) ==
    IF n < 10 THEN <<DigitChars[n + 1]>>
    ELSE StrNat(n \div 10) \o <<DigitChars[(n % 10) + 1]>>

Str(n) == IF n < 0 THEN <<"-">> \o StrNat(0 - n) ELSE StrNat(n)

\* int(text): an optional sign followed by at least one decimal digit; any
\* other text raises ValueError.  (Python also accepts "_" between digits and
\* non-ASCII digits; the files of the model hold neither.)
IntBody(s) == IF s # <<>> /\ Head(s) \in {"+", "-"} THEN Tail(s) ELSE s

IsIntLiteral(s) ==
    /\ IntBody(s) # <<>>
    /\ \A i \in 1..Len(IntBody(s)) : IsDigit(IntBody(s)[i])

RECURSIVE NatVal(_)
NatVal(s) ==
    IF s = <<>> THEN 0
    ELSE 10 * NatVal(SubSeq(s, 1, Len(s) - 1)) + DigitVal(s[Len(s)])

IntVal(s) == IF Head(s) = "-" THEN 0 - NatVal(IntBody(s)) ELSE NatVal(IntBody(s))


\* ------------------------------------------------------- Python values
\* None, as the value of an unset environment variable or a missing result.
NoneVal == "<None>"

\* Truth value of a configuration string: None and "" are false.
Truthy(v) == v \notin {NoneVal, ""}

\* The citation count a lookup yields: None, an int, or a value of another
\* type (the code does not check the type of author_info['citedby']).
NoCount == [kind |-> "none", val |-> 0]

IntCount(n) == [kind |-> "int", val |-> n]

StrCount == [kind |-> "str", val |-> 0]

\* ------------------------------------------------- persistent counter store
\* LAST_COUNT_FILE on disk: whether it exists, whether it can be opened and
\* read (permissions, encoding), and the characters it holds.
NoFile == [exists |-> FALSE, readable |-> TRUE, content |-> <<>>]

FileWith(text) == [exists |-> TRUE, readable |-> TRUE, content |-> text]

Unreadable(text) == [exists |-> TRUE, readable |-> FALSE, content |-> text]

\* Variant: a text that is not a number yields the sentinel -1 instead of 0.
read_last_count_sentinel(f) ==
    IF ~f.exists THEN 0
    ELSE IF ~f.readable THEN 0
    ELSE LET content == Strip(f.content)
         IN  IF content # <<>>
             THEN IF IsIntLiteral(content) THEN IntVal(content) ELSE 0 - 1
             ELSE 0

\* Variant: the text is tested with isdigit() before int(), so a signed
\* number is taken for text that is not a number.
read_last_count_isdigit(f) ==
    IF ~f.exists THEN 0
    ELSE IF ~f.readable THEN 0
    ELSE LET content == Strip(f.content)
         IN  IF content # <<>>
             THEN IF \A i \in 1..Len(content) : IsDigit(content[i])
                  THEN NatVal(content) ELSE 0
             ELSE 0

\* read_last_count(filepath): FileNotFoundError (line 45), any other error of
\* open() or read() (line 51), ValueError of int() (line 48), or the number.
read_last_count(f) ==
    IF ~f.exists THEN 0
    ELSE IF ~f.readable THEN 0
    ELSE LET content == Strip(f.content)
         IN  IF content # <<>>
             THEN IF IsIntLiteral(content) THEN IntVal(content) ELSE 0
             ELSE 0

\* The outcomes of the I/O in write_last_count: it works, open() raises and
\* the file is untouched, or open(..., 'w') has truncated the file and the
\* write or the flush on close raises.
WriteOutcomes == {"ok", "open_fails", "write_fails"}

\* open(filepath, 'w') creates the file or empties the one that is there;
\* an existing file keeps its permissions.
Truncated(f) == [exists |-> TRUE, readable |-> (~f.exists \/ f.readable), content |-> <<>>]

\* write_last_count(filepath, count): the file after the call.
write_last_count(f, count, outcome) ==
    CASE outcome = "ok"          -> [Truncated(f) EXCEPT !.content = Str(count)]
      [] outcome = "open_fails"  -> f
      [] outcome = "write_fails" -> Truncated(f)

\* Variant: the function ends with "return True" in the try block and
\* "return False" in the except clause.
write_last_count_flag(outcome) == IF outcome = "ok" THEN "true" ELSE "false"

\* What write_last_count returns: it has no return statement, so None, with
\* the success or the failure only logged (lines 60 and 62).
write_last_count_returns(outcome) == NoneVal

\* The persisted count: what read_last_count returns for the file as it is.
Persisted(f) == read_last_count(f)

\* ---------------------------------------------------------- citation lookup
\* What the scholarly library does in one call: it finds an author whose
\* record has a 'citedby' entry, finds one without it, returns an empty
\* record, finds nobody (StopIteration), or raises another exception.
GoodName == "Ada"

BadName == "Ada\nLovelace"

ExtNames == {GoodName, BadName}

CountValues == 0..MaxCount

ExtFound == [kind : {"found"}, name : ExtNames \cup {NoneVal},
             citedby : {IntCount(n) : n \in CountValues} \cup {StrCount, NoCount}]

ExtNoCitedby == [kind : {"nocitedby"}, name : {GoodName}, citedby : {NoCount}]

ExtFailures == [kind : {"empty", "stop", "error"}, name : {NoneVal}, citedby : {NoCount}]

ExtOutcomes == ExtFound \cup ExtNoCitedby \cup ExtFailures

\* Lines 80-92: which scholarly search get_citation_count makes: by the
\* identifier if one is given, else by the name.
QueryKind(author_name, author_id) ==
    IF Truthy(author_id) THEN "id"
    ELSE IF Truthy(author_name) THEN "name"
    ELSE "none"

\* author_info.get('name', 'N/A')
NameOf(ext) == IF ext.name = NoneVal THEN "N/A" ELSE ext.name

\* get_citation_count(author_name, author_id): the pair it returns.
get_citation_count(author_name, author_id, ext) ==
    IF ~Truthy(author_name) /\ ~Truthy(author_id)
    THEN [name |-> NoneVal, citations |-> NoCount]
    ELSE CASE ext.kind = "stop"  -> [name |-> author_name, citations |-> NoCount]
           [] ext.kind = "error" ->
                [name |-> IF Truthy(author_id) THEN NoneVal ELSE "<generator>",
                 citations |-> NoCount]
           [] ext.kind = "empty" -> [name |-> "Unknown Author", citations |-> NoCount]
           [] ext.kind = "nocitedby" -> [name |-> NameOf(ext), citations |-> NoCount]
           [] ext.kind = "found" -> [name |-> NameOf(ext), citations |-> ext.citedby]

\* ------------------------------------------------------------------- notifier
\* What the SMTP session does: the step that raises, or the message accepted.
SmtpOutcomes == {"connect_fails", "tls_fails", "auth_fails", "send_fails", "accepted"}

\* Variant: the password is left out of the list given to all().
MailComplete_nopassword(m) ==
    /\ Truthy(m.sender)
    /\ Truthy(m.receiver)
    /\ Truthy(m.server)
    /\ m.port # 0

\* The mail settings read from the environment.
MailComplete(m) ==
    /\ Truthy(m.sender)
    /\ Truthy(m.password)
    /\ Truthy(m.receiver)
    /\ Truthy(m.server)
    /\ m.port # 0

\* EmailMessage refuses a header value holding a line break (ValueError).
HeaderRejected(subject) == subject.name = BadName

\* Variant: the function falls through without "return True" after sending.
send_email_noreturn(subject, m, smtp) ==
    IF ~MailComplete(m) THEN [result |-> "false", connects |-> 0, sent |-> 0]
    ELSE IF HeaderRejected(subject) THEN [result |-> "raised", connects |-> 0, sent |-> 0]
    ELSE IF smtp = "accepted" THEN [result |-> "false", connects |-> 1, sent |-> 0]
    ELSE [result |-> "false", connects |-> 1, sent |-> 0]

\* send_email(subject, body, sender, password, receiver, server, port): the
\* value returned ("raised" when an exception leaves the function), whether a
\* connection was opened and whether the message went out.
send_email(subject, m, smtp) ==
    IF ~MailComplete(m) THEN [result |-> "false", connects |-> 0, sent |-> 0]
    ELSE IF HeaderRejected(subject) THEN [result |-> "raised", connects |-> 0, sent |-> 0]
    ELSE IF smtp = "accepted" THEN [result |-> "true", connects |-> 1, sent |-> 1]
    ELSE [result |-> "false", connects |-> 1, sent |-> 0]

\* ------------------------------------------------------------ configuration
\* Values of the environment variables read once at import.  AUTHOR_NAME has
\* a default, so it is a string (possibly empty); AUTHOR_ID may be None.
AuthorConfigs ==
    { [name |-> "Albert Einstein", id |-> NoneVal],
      [name |-> "Ada Lovelace",    id |-> "A1"],
      [name |-> "",                id |-> "A1"],
      [name |-> "",                id |-> NoneVal],
      [name |-> "",                id |-> ""] }

DefaultAuthor == [name |-> "Albert Einstein", id |-> NoneVal]

FullMail ==
    [sender |-> "me@x", password |-> "pw", receiver |-> "you@x",
     server |-> "smtp.gmail.com", port |-> 587]

MailConfigs ==
    { FullMail,
      [FullMail EXCEPT !.sender = NoneVal],
      [FullMail EXCEPT !.password = NoneVal],
      [FullMail EXCEPT !.receiver = ""],
      [FullMail EXCEPT !.server = ""],
      [FullMail EXCEPT !.port = 0] }

\* The configurations explored: every author setting with complete mail
\* settings, and every mail setting with the default author.
Configs ==
    { [author |-> a, mail |-> FullMail] : a \in AuthorConfigs }
    \cup { [author |-> DefaultAuthor, mail |-> m] : m \in MailConfigs }

\* Contents LAST_COUNT_FILE may have when the process starts: absent, empty,
\* blank, not a number, a padded or signed number, or a count written earlier.
InitFiles ==
    { NoFile, FileWith(<<>>), FileWith(<<" ", "\n">>), FileWith(<<"x">>),
      FileWith(<<"1", "x">>), FileWith(<<"-">>), FileWith(<<"1", " ", "2">>),
      FileWith(<<" ", "7", "\n">>), FileWith(<<"+", "3">>),
      FileWith(<<"0", "0", "4">>), FileWith(<<"-", "2">>),
      Unreadable(<<"5">>) }
    \cup { FileWith(Str(n)) : n \in CountValues }

\* ----------------------------------------------------------------- the state
VARIABLES
    AUTHOR_NAME,          \* configuration, fixed at import
    AUTHOR_ID,
    mail,                 \* SENDER_EMAIL, SENDER_PASSWORD, RECEIVER_EMAIL, SMTP_SERVER, SMTP_PORT
    file,                 \* LAST_COUNT_FILE on disk
    pc,                   \* position of the main loop
    last_count,           \* locals of the cycle
    search_identifier,
    author_display_name,
    total_citations,
    subject,              \* subject of the message: the name and the increase it states
    email_sent,           \* "unset", or what send_email returned
    file0,                \* history: the file when the cycle began
    steps,                \* history: external calls of this cycle, in order
    looked,               \* history: arguments of this cycle's lookup
    connects,             \* history: SMTP connections opened in this cycle
    sent,                 \* history: messages accepted in this cycle
    writeOutcome,         \* history: outcome of this cycle's write
    writeReturned,        \* history: what write_last_count returned
    exc,                  \* history: the step whose exception reached the handler
    prev                  \* history: the previous cycle, when its notification failed

vars == <<AUTHOR_NAME, AUTHOR_ID, mail, file, pc, last_count, search_identifier,
          author_display_name, total_citations, subject, email_sent, file0,
          steps, looked, connects, sent, writeOutcome, writeReturned, exc, prev>>

config == <<AUTHOR_NAME, AUTHOR_ID, mail>>

NoSubject == [name |-> NoneVal, increase |-> 0]

NoLookup == [author_name |-> NoneVal, author_id |-> NoneVal, by |-> "none"]

NoPrev == [failed |-> FALSE, lost |-> "none", last |-> 0, current |-> 0]

Init ==
    /\ \E c \in Configs :
         /\ AUTHOR_NAME = c.author.name
         /\ AUTHOR_ID = c.author.id
         /\ mail = c.mail
    /\ file \in InitFiles
    /\ pc = "read"
    /\ last_count = 0
    /\ search_identifier = "N/A"
    /\ author_display_name = "N/A"
    /\ total_citations = NoCount
    /\ subject = NoSubject
    /\ email_sent = "unset"
    /\ file0 = file
    /\ steps = <<>>
    /\ looked = NoLookup
    /\ connects = 0
    /\ sent = 0
    /\ writeOutcome = "none"
    /\ writeReturned = "unset"
    /\ exc = "none"
    /\ prev = NoPrev

\* -------------------------------------------------------- the check cycle
\* Lines 145-157: read the last count and clear the locals of the cycle.
\* subject and email_sent are assigned before any use in a cycle, so they
\* are cleared here with the locals the code clears.
ReadLast ==
    /\ pc = "read"
    /\ last_count' = read_last_count(file)
    /\ search_identifier' = "N/A"
    /\ author_display_name' = "N/A"
    /\ total_citations' = NoCount
    /\ subject' = NoSubject
    /\ email_sent' = "unset"
    /\ file0' = file
    /\ steps' = <<"read">>
    /\ looked' = NoLookup
    /\ connects' = 0
    /\ sent' = 0
    /\ writeOutcome' = "none"
    /\ writeReturned' = "unset"
    /\ exc' = "none"
    /\ pc' = "lookup"
    /\ UNCHANGED <<config, file, prev>>

\* Lines 160-165: one call of get_citation_count with the given arguments.
LookupCall(identifier, author_name, author_id, ext) ==
    LET r == get_citation_count(author_name, author_id, ext)
    IN  /\ search_identifier' = identifier
        /\ author_display_name' = r.name
        /\ total_citations' = r.citations
        /\ steps' = Append(steps, "lookup")
        /\ looked' = [author_name |-> author_name, author_id |-> author_id,
                      by |-> QueryKind(author_name, author_id)]
        /\ pc' = "compare"
        /\ UNCHANGED <<config, file, last_count, subject, email_sent, file0,
                       connects, sent, writeOutcome, writeReturned, exc, prev>>

\* Lines 160-162: an identifier is configured.
LookupById(ext) ==
    /\ pc = "lookup"
    /\ Truthy(AUTHOR_ID)
    /\ LookupCall("ID: " \o AUTHOR_ID, NoneVal, AUTHOR_ID, ext)

\* Lines 163-165: no identifier, a name is configured.
LookupByName(ext) ==
    /\ pc = "lookup"
    /\ ~Truthy(AUTHOR_ID)
    /\ Truthy(AUTHOR_NAME)
    /\ LookupCall("Name: " \o AUTHOR_NAME, AUTHOR_NAME, NoneVal, ext)

\* Lines 166-168: neither is configured; nothing is looked up.
NoAuthor ==
    /\ pc = "lookup"
    /\ ~Truthy(AUTHOR_ID)
    /\ ~Truthy(AUTHOR_NAME)
    /\ pc' = "compare"
    /\ UNCHANGED <<config, file, last_count, search_identifier, author_display_name,
                   total_citations, subject, email_sent, file0, steps,
                   looked, connects, sent, writeOutcome, writeReturned, exc, prev>>

\* Variant: the name is tested before the identifier.
Lookup_namefirst ==
    \/ \E ext \in ExtOutcomes :
         /\ pc = "lookup"
         /\ Truthy(AUTHOR_NAME)
         /\ LookupCall("Name: " \o AUTHOR_NAME, AUTHOR_NAME, NoneVal, ext)
    \/ \E ext \in ExtOutcomes :
         /\ pc = "lookup"
         /\ ~Truthy(AUTHOR_NAME)
         /\ Truthy(AUTHOR_ID)
         /\ LookupCall("ID: " \o AUTHOR_ID, NoneVal, AUTHOR_ID, ext)
    \/ NoAuthor

Lookup ==
    \/ \E ext \in ExtOutcomes : LookupById(ext)
    \/ \E ext \in ExtOutcomes : LookupByName(ext)
    \/ NoAuthor

\* A lookup that succeeds: it returns an integer count and a display name
\* that fits on one line.
LookupSucceeds ==
    \E ext \in ExtFound :
        /\ ext.citedby.kind = "int"
        /\ ext.name # BadName
        /\ (LookupById(ext) \/ LookupByName(ext))

\* Variant: the two comparisons are the wrong way round.
Branch_inverted(identifier, total, last) ==
    IF identifier = "N/A" THEN "skip"
    ELSE IF total.kind = "none" THEN "failed"
    ELSE IF total.kind # "int" THEN "raise"
    ELSE IF total.val < last THEN "increase"
    ELSE IF total.val = last THEN "equal"
    ELSE "decrease"

\* Variant: the first comparison is != instead of >.
Branch_differs(identifier, total, last) ==
    IF identifier = "N/A" THEN "skip"
    ELSE IF total.kind = "none" THEN "failed"
    ELSE IF total.kind # "int" THEN "raise"
    ELSE IF total.val # last THEN "increase"
    ELSE IF total.val = last THEN "equal"
    ELSE "decrease"

\* Variant: the first comparison is >= instead of >.
Branch_ge(identifier, total, last) ==
    IF identifier = "N/A" THEN "skip"
    ELSE IF total.kind = "none" THEN "failed"
    ELSE IF total.kind # "int" THEN "raise"
    ELSE IF total.val >= last THEN "increase"
    ELSE IF total.val = last THEN "equal"
    ELSE "decrease"

\* Variant: a missing count is taken as 0 instead of ending the cycle.
Branch_nonezero(identifier, total, last) ==
    IF identifier = "N/A" THEN "skip"
    ELSE IF total.kind = "str" THEN "raise"
    ELSE IF total.val > last THEN "increase"
    ELSE IF total.val = last THEN "equal"
    ELSE "decrease"

\* Lines 171-201: which branch of the decision the cycle takes.  Comparing
\* a non-integer count with the int last_count raises TypeError.
Branch(identifier, total, last) ==
    IF identifier = "N/A" THEN "skip"
    ELSE IF total.kind = "none" THEN "failed"
    ELSE IF total.kind # "int" THEN "raise"
    ELSE IF total.val > last THEN "increase"
    ELSE IF total.val = last THEN "equal"
    ELSE "decrease"

\* Variant: on an increase the count is written before any notification.
AfterCompare_writefirst(b) ==
    CASE b = "increase" -> "persist"
      [] b = "decrease" -> "correct"
      [] b = "raise"    -> "except"
      [] OTHER          -> "sleep"

\* Where each branch of the decision goes next: the notification (line 184),
\* the write of a lower count (line 197), the except clause (line 205), or
\* the end of the cycle.
AfterCompare(b) ==
    CASE b = "increase" -> "notify"
      [] b = "decrease" -> "correct"
      [] b = "raise"    -> "except"
      [] OTHER          -> "sleep"

\* Variant: the operands of the subtraction are swapped.
Increase_swapped(total, last) == last - total

\* Line 177: increase = total_citations - last_count
Increase(total, last) == total - last

\* Lines 171-182 and 192-201: the comparison and what it leads to.
Compare ==
    /\ pc = "compare"
    /\ LET b == Branch(search_identifier, total_citations, last_count)
       IN  /\ pc' = AfterCompare(b)
           /\ subject' = IF b = "increase"
                         THEN [name |-> author_display_name,
                               increase |-> Increase(total_citations.val, last_count)]
                         ELSE subject
           /\ exc' = IF b = "raise" THEN "compare" ELSE exc
    /\ UNCHANGED <<config, file, last_count, search_identifier, author_display_name,
                   total_citations, email_sent, file0, steps, looked,
                   connects, sent, writeOutcome, writeReturned, prev>>

\* Variant: the count is written whatever send_email returned.
AfterNotify_always(result) == "persist"

\* Variant: the test of email_sent is negated.
AfterNotify_negated(result) == IF result = "true" THEN "sleep" ELSE "persist"

\* Lines 187-190: the count is written only if send_email returned True.
AfterNotify(result) == IF result = "true" THEN "persist" ELSE "sleep"

\* Lines 184-190: one call of send_email and the test of what it returned.
NotifyWith(smtp) ==
    /\ pc = "notify"
    /\ LET r == send_email(subject, mail, smtp)
       IN  /\ steps' = Append(steps, "notify")
           /\ connects' = r.connects
           /\ sent' = r.sent
           /\ IF r.result = "raised"
              THEN /\ exc' = "notify"
                   /\ pc' = "except"
                   /\ UNCHANGED email_sent
              ELSE /\ email_sent' = r.result
                   /\ pc' = AfterNotify(r.result)
                   /\ UNCHANGED exc
    /\ UNCHANGED <<config, file, last_count, search_identifier, author_display_name,
                   total_citations, subject, file0, looked,
                   writeOutcome, writeReturned, prev>>

Notify == \E smtp \in SmtpOutcomes : NotifyWith(smtp)

\* A notification attempt in which the mail server accepts the message.
NotifyAccepted == NotifyWith("accepted")

\* Variant: the call passes last_count instead of total_citations.
WriteCall_last ==
    /\ \E outcome \in WriteOutcomes :
         /\ file' = write_last_count(file, last_count, outcome)
         /\ writeOutcome' = outcome
         /\ writeReturned' = write_last_count_returns(outcome)
    /\ steps' = Append(steps, "write")
    /\ pc' = "sleep"
    /\ UNCHANGED <<config, last_count, search_identifier, author_display_name,
                   total_citations, subject, email_sent, file0, looked,
                   connects, sent, exc, prev>>

\* Variant: write_last_count has no try/except, so a failed write raises
\* into the loop's except clause.
WriteCall_uncaught ==
    /\ \E outcome \in WriteOutcomes :
         /\ file' = write_last_count(file, total_citations.val, outcome)
         /\ writeOutcome' = outcome
         /\ writeReturned' = write_last_count_returns(outcome)
         /\ pc' = IF outcome = "ok" THEN "sleep" ELSE "except"
         /\ exc' = IF outcome = "ok" THEN exc ELSE "write"
    /\ steps' = Append(steps, "write")
    /\ UNCHANGED <<config, last_count, search_identifier, author_display_name,
                   total_citations, subject, email_sent, file0, looked,
                   connects, sent, prev>>

\* One call of write_last_count(LAST_COUNT_FILE, total_citations).
WriteCall ==
    /\ \E outcome \in WriteOutcomes :
         /\ file' = write_last_count(file, total_citations.val, outcome)
         /\ writeOutcome' = outcome
         /\ writeReturned' = write_last_count_returns(outcome)
    /\ steps' = Append(steps, "write")
    /\ pc' = "sleep"
    /\ UNCHANGED <<config, last_count, search_identifier, author_display_name,
                   total_citations, subject, email_sent, file0, looked,
                   connects, sent, exc, prev>>

\* Line 188: the write after a notification that was sent.
PersistIncrease == pc = "persist" /\ WriteCall

\* Line 197: the write of a lower count.
PersistDecrease == pc = "correct" /\ WriteCall

\* Variant: the exception is not caught and the process ends.
HandlerNext_crash == "crashed"

\* Where the except clause of the loop body leads (lines 205-212).
HandlerNext == "sleep"

\* Variant: the count observed is written on the way out of the cycle, as
\* in a finally clause, also when an exception ended it.
Handler_persists ==
    /\ pc = "except"
    /\ pc' = HandlerNext
    /\ file' = write_last_count(file, total_citations.val, "ok")
    /\ steps' = Append(steps, "write")
    /\ UNCHANGED <<config, last_count, search_identifier, author_display_name,
                   total_citations, subject, email_sent, file0,
                   looked, connects, sent, writeOutcome, writeReturned, exc, prev>>

\* Lines 205-208: an exception that left the cycle is logged.
Handler ==
    /\ pc = "except"
    /\ pc' = HandlerNext
    /\ UNCHANGED <<config, file, last_count, search_identifier, author_display_name,
                   total_citations, subject, email_sent, file0, steps,
                   looked, connects, sent, writeOutcome, writeReturned, exc, prev>>

\* What a cycle leaves for the next one to be compared with: its baseline
\* and observed count when it attempted a notification that was not sent
\* (failed), or sent one and then failed to write the count (lost: how the
\* write failed).
Summary ==
    IF \E i \in 1..Len(steps) : steps[i] = "notify"
    THEN IF email_sent = "true"
         THEN IF writeOutcome \in {"open_fails", "write_fails"}
              THEN [failed |-> FALSE, lost |-> writeOutcome,
                    last |-> last_count, current |-> total_citations.val]
              ELSE NoPrev
         ELSE [failed |-> TRUE, lost |-> "none",
               last |-> last_count, current |-> total_citations.val]
    ELSE NoPrev

\* Lines 210-212: the hour of sleep, then the next iteration.
Sleep ==
    /\ pc = "sleep"
    /\ pc' = "read"
    /\ prev' = Summary
    /\ UNCHANGED <<config, file, last_count, search_identifier, author_display_name,
                   total_citations, subject, email_sent, file0, steps,
                   looked, connects, sent, writeOutcome, writeReturned, exc>>

Next ==
    \/ ReadLast
    \/ Lookup
    \/ Compare
    \/ Notify
    \/ PersistIncrease
    \/ PersistDecrease
    \/ Handler
    \/ Sleep

Spec == Init /\ [][Next]_vars

\* A notification attempt that succeeds: the server accepts the message and
\* send_email reports it sent.
NotifySent == NotifyAccepted /\ sent' = 1

\* The loop is one sequential thread whose every step returns (weak fairness
\* of Next); lookups keep succeeding and notification attempts eventually
\* succeed (strong fairness of the two successes).  The initial states are
\* narrowed to a few files and two mail settings.
FairFiles == { NoFile, FileWith(<<"x">>), FileWith(Str(2)), FileWith(Str(MaxCount)) }

FairInit ==
    /\ Init
    /\ file \in FairFiles
    /\ mail \in {FullMail, [FullMail EXCEPT !.password = NoneVal]}

FairSpec ==
    /\ FairInit
    /\ [][Next]_vars
    /\ WF_vars(Next)
    /\ SF_vars(LookupSucceeds)
    /\ SF_vars(NotifySent)

\* ------------------------------------------------- the store on its own
\* write_last_count and read_last_count applied to the file outside the
\* loop: any integer of the range is written over any initial file, with any
\* outcome of the I/O, and read back before the next write.
StoreValues == (0 - MaxCount)..MaxCount

StoreInit ==
    /\ AUTHOR_NAME = DefaultAuthor.name
    /\ AUTHOR_ID = DefaultAuthor.id
    /\ mail = FullMail
    /\ file \in InitFiles
    /\ pc = "store"
    /\ last_count = 0
    /\ search_identifier = "N/A"
    /\ author_display_name = "N/A"
    /\ total_citations = NoCount
    /\ subject = NoSubject
    /\ email_sent = "unset"
    /\ file0 = file
    /\ steps = <<>>
    /\ looked = NoLookup
    /\ connects = 0
    /\ sent = 0
    /\ writeOutcome = "none"
    /\ writeReturned = "unset"
    /\ exc = "none"
    /\ prev = NoPrev

\* write_last_count(LAST_COUNT_FILE, v); total_citations keeps the argument.
StoreWrite ==
    /\ pc \in {"store", "readback"}
    /\ \E v \in StoreValues, outcome \in WriteOutcomes :
         /\ file' = write_last_count(file, v, outcome)
         /\ total_citations' = IntCount(v)
         /\ writeOutcome' = outcome
         /\ writeReturned' = write_last_count_returns(outcome)
    /\ file0' = file
    /\ pc' = "written"
    /\ UNCHANGED <<config, last_count, search_identifier, author_display_name,
                   subject, email_sent, steps, looked, connects, sent, exc, prev>>

\* read_last_count(LAST_COUNT_FILE) after a write; last_count keeps the result.
StoreRead ==
    /\ pc = "written"
    /\ last_count' = read_last_count(file)
    /\ pc' = "readback"
    /\ UNCHANGED <<config, file, search_identifier, author_display_name,
                   total_citations, subject, email_sent, file0, steps, looked,
                   connects, sent, writeOutcome, writeReturned, exc, prev>>

StoreNext == StoreWrite \/ StoreRead

StoreSpec == StoreInit /\ [][StoreNext]_vars

\* ------------------------------------------------------ reading the history
\* The external call "step" was made in the current cycle, and how often.
Did(step) == \E i \in 1..Len(steps) : steps[i] = step

Times(step) == Cardinality({i \in 1..Len(steps) : steps[i] = step})

\* The cycle is over: its locals and history describe the whole cycle.
CycleEnd == pc = "sleep"

\* The lookup of the cycle returned an integer count.
LookupOk == Did("lookup") /\ total_citations.kind = "int"

Current == total_citations.val

\* ------------------------------------------------------------------- claims

\* C1 as stated: in a cycle whose lookup succeeds with current > last and
\* whose notification reports success, the persisted count after the cycle
\* equals current.
C1_Original ==
    (CycleEnd /\ LookupOk /\ Current > last_count /\ email_sent = "true")
        => Persisted(file) = Current

\* C1 amended: in such a cycle exactly one store write is made, it is a write
\* of current, and the persisted count after the cycle equals current unless
\* an I/O failure intervenes (the write fails, or the file cannot be read).
C1_PersistOnSuccess ==
    (CycleEnd /\ LookupOk /\ Current > last_count /\ email_sent = "true")
        => /\ Times("write") = 1
           /\ writeOutcome = "ok" => file.content = Str(Current)
           /\ (writeOutcome = "ok" /\ file.readable) => Persisted(file) = Current

C1_Witness ==
    /\ CycleEnd /\ LookupOk /\ Current > last_count /\ email_sent = "true"
    /\ writeOutcome = "ok" /\ file.readable
    /\ Current >= 10 /\ last_count > 0

\* C2: in a cycle whose lookup succeeds with current > last and whose
\* notification attempt fails, no store write is made and the persisted count
\* after the cycle equals last.
C2_NoPersistOnFailure ==
    (CycleEnd /\ LookupOk /\ Current > last_count /\ Did("notify")
        /\ email_sent # "true")
        => /\ ~Did("write")
           /\ writeOutcome = "none"
           /\ file = file0
           /\ Persisted(file) = last_count

C2_Witness ==
    /\ CycleEnd /\ LookupOk /\ Current > last_count /\ Did("notify")
    /\ email_sent = "false" /\ connects = 1 /\ last_count > 0

\* The persisted count went up during the current cycle.
MovedUp == Persisted(file) > Persisted(file0)

\* C3 as stated: the persisted count changes in a cycle only when it differs
\* from the observed count, every change sets it to the observed count, and
\* an upward change needs a notification that was sent.
C3_Original ==
    Persisted(file) # Persisted(file0)
        => /\ LookupOk
           /\ Persisted(file0) # Current
           /\ Persisted(file) = Current
           /\ MovedUp => (email_sent = "true" /\ sent = 1)

\* C3 amended: the persisted count changes in a cycle only through a store
\* write, made only when the observed count differs from it; a write that
\* succeeds sets it to the observed count, a write that fails after opening
\* the file leaves the store empty (count 0); an upward change needs a
\* notification that was sent; otherwise the count is left as it was.
C3_ChangeDiscipline ==
    /\ Persisted(file) # Persisted(file0)
        => /\ LookupOk
           /\ Did("write")
           /\ Persisted(file0) # Current
           /\ writeOutcome = "ok" => Persisted(file) = Current
           /\ writeOutcome # "ok" => (file.content = <<>> /\ Persisted(file) = 0)
           /\ MovedUp => (email_sent = "true" /\ sent = 1)
    /\ (pc # "read" /\ ~Did("write")) => file = file0

C3_Witness ==
    /\ CycleEnd /\ MovedUp /\ Persisted(file) = Current
    /\ Persisted(file0) > 0 /\ email_sent = "true"

\* C4 as stated: after a cycle with an increase and a failed notification,
\* the next cycle recomputes the same or a larger increase against the
\* unchanged persisted count and attempts the notification again.
C4_Original ==
    (CycleEnd /\ prev.failed)
        => /\ last_count = prev.last
           /\ Did("notify")
           /\ subject.increase >= prev.current - prev.last

\* C4 amended: after such a cycle the persisted count is unchanged and the
\* next cycle reads the same baseline; it attempts the notification again
\* exactly when its lookup returns a count above that baseline, and the
\* increase is the same or larger when that count is not below the one
\* observed before.
C4_RetryNextCycle ==
    (CycleEnd /\ prev.failed)
        => /\ last_count = prev.last
           /\ Did("notify") <=> (LookupOk /\ Current > prev.last)
           /\ (LookupOk /\ Current > prev.last)
                => subject.increase = Current - prev.last
           /\ (LookupOk /\ Current >= prev.current)
                => (Did("notify") /\ subject.increase >= prev.current - prev.last)

C4_Witness ==
    /\ CycleEnd /\ prev.failed /\ prev.last > 0
    /\ Did("notify") /\ LookupOk /\ Current > prev.current

\* The persisted count is the acknowledgment marker: it moves up only in a
\* step taken after the notification of the cycle was sent.
AckMarker ==
    [][Persisted(file') > Persisted(file) => (email_sent = "true" /\ sent = 1)]_vars

\* A cycle has just observed current > last and is about to notify, with
\* complete mail settings.
IncreaseObserved == pc = "notify" /\ MailComplete(mail)

\* A later lookup showed the count at or below the baseline.
FellBack == pc = "sleep" /\ LookupOk /\ Current <= last_count

\* C5 as stated: whenever a cycle observes current > persisted count, a
\* notification is eventually sent successfully (lookups keep succeeding,
\* notification attempts eventually succeed, calls return), and the persisted
\* count moves up only after a successful send.  An attempt that ends in an
\* exception is not held against the claim here, so that what refutes it is
\* the count falling back alone.
C5_Original ==
    /\ IncreaseObserved ~> (sent = 1 \/ exc = "notify")
    /\ AckMarker

\* C5 amended: whenever a cycle observes current > persisted count, then
\* under the same fairness a notification is eventually sent successfully
\* unless a later lookup finds the count no longer above the persisted
\* count; the persisted count moves up only after a successful send.
C5_AtLeastOnce ==
    /\ IncreaseObserved ~> (sent = 1 \/ FellBack)
    /\ AckMarker

C5_Witness ==
    /\ CycleEnd /\ prev.failed /\ sent = 1 /\ email_sent = "true"
    /\ MovedUp /\ MailComplete(mail)

\* C6 as stated: in a cycle whose lookup succeeds with current < last the
\* persisted count after the cycle equals current and no notification is
\* attempted.
C6_Original ==
    (CycleEnd /\ LookupOk /\ Current < last_count)
        => /\ Persisted(file) = Current
           /\ ~Did("notify")

\* C6 amended: in such a cycle no notification is attempted, exactly one
\* store write is made, it is a write of current, and the persisted count
\* after the cycle equals current unless that write fails.
C6_SilentCorrection ==
    (CycleEnd /\ LookupOk /\ Current < last_count)
        => /\ ~Did("notify")
           /\ connects = 0 /\ sent = 0 /\ email_sent = "unset"
           /\ Times("write") = 1
           /\ writeOutcome = "ok" => Persisted(file) = Current

C6_Witness ==
    /\ CycleEnd /\ LookupOk /\ Current < last_count /\ Current > 0
    /\ writeOutcome = "ok" /\ Persisted(file) = Current /\ ~Did("notify")

\* C7: in a cycle whose lookup succeeds with current = last, no notification
\* is attempted and no store write is made.
C7_EqualIsNoOp ==
    (CycleEnd /\ LookupOk /\ Current = last_count)
        => /\ ~Did("notify")
           /\ connects = 0 /\ sent = 0 /\ email_sent = "unset"
           /\ ~Did("write")
           /\ writeOutcome = "none"
           /\ file = file0

C7_Witness ==
    /\ CycleEnd /\ LookupOk /\ Current = last_count /\ Current >= 10
    /\ steps = <<"read", "lookup">>

\* The cycle is past its comparison.
PastCompare == pc \notin {"read", "lookup", "compare"}

\* C8: a cycle whose lookup reports failure, or for which no author name or
\* identifier is configured, is a no-op: no notification attempt, no store
\* write, the persisted count unchanged, and the cycle goes on to the sleep.
C8_FailedLookupIsNoOp ==
    /\ (PastCompare /\ total_citations.kind = "none")
         => /\ pc = "sleep"
            /\ ~Did("notify") /\ connects = 0 /\ sent = 0
            /\ ~Did("write") /\ writeOutcome = "none"
            /\ file = file0
            /\ Persisted(file) = last_count
            /\ exc = "none"
    /\ (pc # "read" /\ ~Truthy(AUTHOR_NAME) /\ ~Truthy(AUTHOR_ID))
         => (~Did("lookup") /\ total_citations.kind = "none")

C8_Witness ==
    /\ CycleEnd /\ Did("lookup") /\ total_citations.kind = "none"
    /\ author_display_name = AUTHOR_NAME /\ last_count > 0

\* C9: the loop has no terminal state: every cycle, whether it ends normally
\* or by an exception caught in the handler, reaches the sleep, and every
\* sleep is followed by a new cycle that starts with a store read.
C9_NoTerminalState ==
    /\ (pc # "sleep") ~> (pc = "sleep")
    /\ (pc = "sleep") ~> (pc = "lookup" /\ steps = <<"read">>)
    /\ (pc = "except") ~> (pc = "sleep" /\ exc # "none")
    /\ [](pc \in {"read", "lookup", "compare", "notify", "persist", "correct",
                 "except", "sleep"})

C9_Witness == pc = "sleep" /\ exc = "notify" /\ Did("lookup")

\* Text that int() rejects, described by its characters: a character that is
\* neither a digit, a sign nor whitespace, a sign with no digit after it, or
\* whitespace between two other characters.
NotANumber(text) ==
    \/ \E i \in 1..Len(text) :
         ~IsDigit(text[i]) /\ text[i] \notin {"+", "-"} /\ ~IsSpace(text[i])
    \/ Strip(text) \in {<<"+">>, <<"-">>}
    \/ \E i \in 2..(Len(Strip(text)) - 1) : IsSpace(Strip(text)[i])

\* C10: read() returns 0 when the file is absent, empty or whitespace only,
\* not a number, or unreadable; it returns the stored integer otherwise; it
\* never raises (the cycle goes on to the lookup with no exception pending).
C10_ReadDefaults ==
    pc = "lookup"
        => /\ exc = "none"
           /\ ~file.exists => last_count = 0
           /\ ~file.readable => last_count = 0
           /\ (\A i \in 1..Len(file.content) : IsSpace(file.content[i]))
                => last_count = 0
           /\ NotANumber(file.content) => last_count = 0
           /\ \A n \in (0 - MaxCount)..MaxCount :
                (file.exists /\ file.readable /\ Strip(file.content) = Str(n))
                    => last_count = n
           /\ (last_count # 0) =>
                (file.exists /\ file.readable /\ ~NotANumber(file.content))

C10_Witness ==
    /\ pc = "lookup" /\ last_count = 0
    /\ file.exists /\ file.readable /\ NotANumber(file.content)
    /\ Len(file.content) > 1

\* C11: for every integer v, write(v) followed by read() with no write in
\* between returns v, provided no I/O failure occurs (the write works and the
\* file can be read).
C11_RoundTrip ==
    (pc = "readback" /\ writeOutcome = "ok" /\ file.readable)
        => last_count = total_citations.val

C11_Witness ==
    /\ pc = "readback" /\ writeOutcome = "ok" /\ file.readable
    /\ total_citations.val < 0 - 9 /\ last_count = total_citations.val
    /\ ~file0.exists

\* The cycle has made its store write.
Wrote == pc # "read" /\ Did("write")

\* C12 as stated: write(value) returns a success flag, true when the value
\* was stored and false on an I/O failure, and never raises.
C12_Original ==
    Wrote => /\ writeOutcome = "ok" => writeReturned = "true"
             /\ writeOutcome # "ok" => writeReturned = "false"
             /\ exc = "none"

\* C12 amended: write(value) returns no value (None) whether the value was
\* stored or an I/O failure occurred, the outcome being reported in the log
\* only; it stores the value when the I/O works and never raises.
C12_WriteReturnsNothing ==
    Wrote => /\ writeReturned = NoneVal
             /\ writeOutcome \in WriteOutcomes
             /\ writeOutcome = "ok" => file.content = Str(Current)
             /\ exc = "none"
             /\ pc = "sleep"

C12_Witness ==
    /\ Wrote /\ writeOutcome = "write_fails" /\ writeReturned = NoneVal
    /\ pc = "sleep" /\ exc = "none" /\ email_sent = "true"

\* One of the five mail settings is missing: None or empty, or a port of 0.
SettingMissing ==
    \/ mail.sender \in {NoneVal, ""}
    \/ mail.password \in {NoneVal, ""}
    \/ mail.receiver \in {NoneVal, ""}
    \/ mail.server \in {NoneVal, ""}
    \/ mail.port = 0

\* The cycle has made its call of send_email.
Notified == pc # "read" /\ Did("notify")

\* C13: with any one of sender address, sender credential, receiver address,
\* server host or server port missing, notify fails at once: it returns
\* false, opens no connection, sends nothing and raises nothing.
C13_IncompleteFailsFast ==
    (Notified /\ SettingMissing)
        => /\ email_sent = "false"
           /\ connects = 0
           /\ sent = 0
           /\ exc = "none"
           /\ ~Did("write")

C13_Witness ==
    /\ Notified /\ mail.password = NoneVal /\ Truthy(mail.sender)
    /\ email_sent = "false" /\ connects = 0 /\ author_display_name = BadName

\* C14 as stated: notify never raises past its boundary: a failure at any
\* step of an attempt (building the message, connecting, upgrading to TLS,
\* authenticating, sending) is reported as a false flag, and true is returned
\* only after the message was sent.
C14_NotifyNeverRaises ==
    Notified
        => /\ exc # "notify"
           /\ email_sent \in {"true", "false"}
           /\ email_sent = "true" <=> sent = 1

\* A setting is configured: neither None nor empty.
Configured(v) == v # NoneVal /\ v # ""

\* C15: when both an identifier and a name are configured, every lookup is
\* made by the identifier and the name is not passed to the query; the name
\* is used only when no identifier is configured.
C15_IdentifierFirst ==
    (pc # "read" /\ Did("lookup"))
        => /\ Configured(AUTHOR_ID)
                => /\ looked.by = "id"
                   /\ looked.author_id = AUTHOR_ID
                   /\ looked.author_name = NoneVal
                   /\ search_identifier = "ID: " \o AUTHOR_ID
           /\ looked.by = "name"
                => /\ ~Configured(AUTHOR_ID)
                   /\ looked.author_name = AUTHOR_NAME
                   /\ looked.author_id = NoneVal
                   /\ search_identifier = "Name: " \o AUTHOR_NAME
           /\ looked.by \in {"id", "name"}

C15_Witness ==
    /\ pc = "sleep" /\ Did("lookup")
    /\ Configured(AUTHOR_ID) /\ Configured(AUTHOR_NAME)
    /\ looked.by = "id" /\ looked.author_name = NoneVal /\ LookupOk

\* The orders in which a cycle may make its external calls.
CallOrders ==
    { <<"read">>,
      <<"read", "lookup">>,
      <<"read", "lookup", "notify">>,
      <<"read", "lookup", "write">>,
      <<"read", "lookup", "notify", "write">> }

\* C16: every cycle makes its calls in the order store read, at most one
\* lookup, at most one notification attempt, at most one store write; a write
\* on an increase never precedes the notification attempt of the cycle, and
\* no notification attempt or write precedes the lookup.
C16_StepOrder ==
    pc # "read"
        => /\ steps \in CallOrders
           /\ (Did("write") /\ Current > last_count)
                => (steps = <<"read", "lookup", "notify", "write">>
                    /\ email_sent = "true")
           /\ (Did("write") /\ Current < last_count)
                => steps = <<"read", "lookup", "write">>
           /\ pc \in {"compare", "notify", "correct"} => ~Did("notify") /\ ~Did("write")
           /\ pc = "persist" => steps = <<"read", "lookup", "notify">>

C16_Witness ==
    /\ pc = "sleep" /\ steps = <<"read", "lookup", "notify", "write">>
    /\ Current > last_count /\ last_count > 0

\* C17: every notification attempted carries a delta equal to current - last,
\* last being the count read at the start of the cycle, and that delta is
\* positive; a cycle with a successful notification sends exactly one email.
C17_DeltaOfNotification ==
    Notified
        => /\ subject.increase = Current - last_count
           /\ last_count = Persisted(file0)
           /\ subject.increase > 0
           /\ subject.name = author_display_name
           /\ Times("notify") = 1
           /\ email_sent = "true" => (sent = 1 /\ connects = 1)
           /\ email_sent # "true" => sent = 0

C17_Witness ==
    /\ Notified /\ email_sent = "true" /\ sent = 1
    /\ last_count = 10 /\ subject.increase = 1

\* The previous cycle sent its notification and then failed to write, and
\* this cycle has observed the same count.
SameCountAfterLostWrite ==
    CycleEnd /\ prev.lost # "none" /\ LookupOk /\ Current = prev.current

\* A failed write does not abort the cycle, and a cycle's baseline is what
\* the store holds when it starts.
WriteFailureTolerated ==
    /\ (Wrote /\ writeOutcome # "ok") => (pc = "sleep" /\ exc = "none")
    /\ pc = "lookup" => last_count = Persisted(file)

\* C18 as stated: a store write that fails does not abort the cycle and the
\* next cycle takes as its baseline whatever the store then holds; after a
\* successful notification followed by a failed write, the next cycle
\* observing the same count compares against the stale value and attempts
\* the same notification again.
C18_Original ==
    /\ WriteFailureTolerated
    /\ SameCountAfterLostWrite
         => /\ last_count = prev.last
            /\ Did("notify")
            /\ subject.increase = prev.current - prev.last

\* C18 amended: a store write that fails does not abort the cycle and the
\* next cycle takes as its baseline whatever the store then holds: the stale
\* value if the file could not be opened, 0 if the file was emptied before
\* the write failed.  After a successful notification followed by a failed
\* write, the next cycle observing the same count attempts the same
\* notification again in the first case; in the second it compares against 0
\* and notifies, with the whole count as the increase, if the count is
\* positive.
C18_StaleBaseline ==
    /\ WriteFailureTolerated
    /\ (SameCountAfterLostWrite /\ prev.lost = "open_fails")
         => /\ last_count = prev.last
            /\ Did("notify")
            /\ subject.increase = prev.current - prev.last
    /\ (SameCountAfterLostWrite /\ prev.lost = "write_fails")
         => /\ last_count = 0
            /\ Did("notify") <=> Current > 0
            /\ Did("notify") => subject.increase = Current

C18_Witness ==
    /\ SameCountAfterLostWrite /\ prev.lost = "open_fails" /\ prev.last > 0
    /\ Did("notify") /\ subject.increase = prev.current - prev.last
    /\ email_sent = "true"

\* C19 as stated: the last known count is non-negative in every reachable
\* state: neither the value read() returned nor the value the store holds is
\* ever negative.
C19_NonNegative ==
    pc # "read" => (last_count >= 0 /\ Persisted(file) >= 0)

\* C20: if an exception escapes a step of a cycle (the comparison of the
\* observed count with the baseline, the notification), the cycle makes no
\* store write and the persisted count after it is the one before it.
C20_ExceptionLeavesStore ==
    (pc # "read" /\ exc # "none")
        => /\ pc \in {"except", "sleep"}
           /\ ~Did("write")
           /\ writeOutcome = "none"
           /\ file = file0
           /\ Persisted(file) = Persisted(file0)
           /\ email_sent = "unset"

C20_Witness ==
    /\ pc = "sleep" /\ exc = "compare" /\ total_citations = StrCount
    /\ Persisted(file) > 0 /\ file = file0

=============================================================================
